---------------------------- MODULE Spec2Model ----------------------------
(***************************************************************************)
(* A model of the babble peer-to-peer RPC transport, NetworkTransport      *)
(* (net/net_transport.go), and of RollingList (common/rolling_list.go).    *)
(*                                                                         *)
(* Spec       : the outbound call path (Sync/genericRPC), the connection   *)
(*              pool and Close, under any interleaving of callers and      *)
(*              closers.                                                   *)
(* SpecIn     : the accept loop, the inbound connection handlers, the      *)
(*              consumer of the dispatch channel and Close.                *)
(* FairSpecIn : SpecIn, where a goroutine of the transport that can take a *)
(*              step eventually takes one; the peers and the consumer are  *)
(*              under no obligation.                                       *)
(* SpecList   : one RollingList of any window size up to MaxSize, under    *)
(*              any sequence of Add and GetItem calls.                     *)
(***************************************************************************)
EXTENDS Naturals, Integers, Sequences, FiniteSets, TLC

(***************************************************************************)
(* Bounds of the model.                                                    *)
(***************************************************************************)
NumCallers == 2        \* goroutines that invoke Sync
NumTargets == 1        \* distinct target addresses
MaxCalls == 3          \* Sync invocations in one behaviour
MaxCloses == 2         \* Close invocations in one behaviour

MaxInConns == 2        \* inbound connections accepted in one behaviour
MaxCmds == 2           \* command frames read on one inbound connection
MaxAcceptErrs == 1     \* Accept errors seen while the listener is open

MaxSize == 3           \* largest window size of the RollingList
MaxAdds == 10          \* Add calls on the RollingList in one behaviour

Callers == 1..NumCallers
Handlers == 1..MaxInConns
Targets == 1..NumTargets
\* One goroutine per Close invocation, numbered in the order in which they
\* get shutdownLock.
Closers == 1..MaxCloses
\* Every call dials at most one connection, so MaxCalls ids are enough.
ConnIds == 1..MaxCalls
NoConn == 0
NoOne == 0
\* An unbuffered reply channel.
RespChUnbuffered == 1 - 1
\* Capacity of the reply channel of an RPC envelope:
\* make(chan RPCResponse, 1).
RespChCap == 1
\* The nil item GetItem returns next to an error.
NoItem == -1
\* GetItem has not been called since the last Add.
NoResult == [index |-> 0, item |-> NoItem, err |-> "none"]

VARIABLES
    \* ---- shutdown state of the NetworkTransport, and the closers
    shutdown,       \* the shutdown flag (guarded by shutdownLock)
    shutdownCh,     \* "open" or "closed": the broadcast signal
    shutdownLock,   \* the closer holding shutdownLock, or NoOne
    listener,       \* "open" or "closed": the stream layer's listener
    kpc,            \* position of each closer inside Close
    chCloses,       \* history: number of close(shutdownCh) executed
    streamCloses,   \* history: number of stream.Close() executed
    closeCalls,     \* history: number of Close invocations so far
    closeReturned,  \* history: some Close invocation has returned
    panicked,       \* history: a close of a closed channel happened
    \* ---- connection pool
    connPool,       \* [Targets -> Seq(ConnIds)]: idle connections per target
    connPoolLock,   \* the caller holding connPoolLock, or NoOne
    maxPool,        \* pool capacity per target
    \* ---- netConn objects
    connState,      \* [ConnIds -> {"unused", "open", "closed"}]
    connTarget,     \* [ConnIds -> Targets \cup {0}]: netConn.target
    \* ---- one outbound caller per element of Callers
    cpc,            \* position of the caller inside genericRPC
    ctarget,        \* the target argument of the call in progress
    cconn,          \* the connection the call holds, or NoConn
    csawShutdown,   \* value of IsShutdown() read inside returnConn
    \* ---- history of the outbound path (not read by the program)
    cres,           \* how the call went: the failed stage, "appErr" or "ok"
    cret,           \* what the call returns: "none", "nil", "err"
    cdisp,          \* what happened to the connection of the call
    cafterClose,    \* the call was invoked after a Close had returned
    failed,         \* connections over which a round trip failed
    returnOrder,    \* [Targets -> Seq(ConnIds)]: the idle connections of a
                    \* target in the order returnConn admitted them
    calls,          \* number of Sync invocations so far
    dialed,         \* number of connections created by Dial so far
    \* ---- the accept loop
    lpc,            \* "accept" (inside stream.Accept) or "done" (returned)
    accepted,       \* number of connections accepted so far
    acceptErrs,     \* history: Accept errors the loop has survived
    \* ---- one handler (handleConn) per accepted connection
    hpc,            \* position of the handler: "none" before the connection
                    \* is accepted, "read", "dispatch", "wait", "flush",
                    \* "exited"
    inConn,         \* the inbound connection: "none", "open", "closed"
    hseq,           \* number of command frames decoded on the connection
    respCh,         \* the reply channel (capacity 1) of the handler's
                    \* current RPC envelope: the replies buffered in it
    hbuf,           \* the response encoded into the writer, not yet flushed
    written,        \* the responses flushed to the connection, in order
    hexit,          \* history: the error handleCommand or Flush ended with
    hexitAt,        \* history: the position at which the handler exited
    \* ---- the consumer of the dispatch channel (external)
    pending,        \* [Handlers -> Nat]: the envelope of the handler that
                    \* the consumer has dequeued and not answered (0: none)
    delivered,      \* history: envelopes handed to the consumer, per handler
    replied,        \* history: replies the consumer sent, per handler
    lateDelivery,   \* history: an envelope was handed to the consumer
                    \* after shutdown had been signaled
    \* ---- one RollingList (common/rolling_list.go)
    size,           \* RollingList.size: the window size
    tot,            \* RollingList.tot: number of items ever added
    items,          \* RollingList.items: the buffer
    \* ---- history of the RollingList (not read by the program)
    added,          \* every item ever added, in order
    rollAt,         \* the Add calls (1-based) in which Roll ran, in order
    res             \* what the last call returned, if it was a GetItem

shutdownVars == <<shutdown, shutdownCh, shutdownLock, listener, kpc,
                  chCloses, streamCloses, closeCalls, closeReturned, panicked>>
poolVars == <<connPool, connPoolLock, maxPool>>
connVars == <<connState, connTarget>>
callerVars == <<cpc, ctarget, cconn, csawShutdown>>
callHist == <<cres, cret, cdisp, cafterClose, failed, returnOrder,
              calls, dialed>>
outVars == <<poolVars, connVars, callerVars, callHist>>

listenVars == <<lpc, accepted, acceptErrs>>
handlerVars == <<hpc, inConn, hseq, respCh, hbuf, written, hexit, hexitAt>>
consumerVars == <<pending, delivered, replied, lateDelivery>>
inVars == <<listenVars, handlerVars, consumerVars>>

rlVars == <<size, tot, items, added, rollAt, res>>

vars == <<shutdownVars, outVars, inVars, rlVars>>

(***************************************************************************)
(* Helpers.                                                                *)
(***************************************************************************)
InSeq(x, s) == \E i \in 1..Len(s) : s[i] = x

\* s without its elements equal to x.
RECURSIVE Without(_, _)
Without(s, x) ==
    IF s = <<>> THEN <<>>
    ELSE IF Head(s) = x THEN Without(Tail(s), x)
    ELSE <<Head(s)>> \o Without(Tail(s), x)

\* How many places of the pool hold connection x.
PoolCount(x) ==
    Cardinality({<<t, i>> \in Targets \X (1..MaxCalls) :
                    i <= Len(connPool[t]) /\ connPool[t][i] = x})

\* The calls that hold connection x.
Holders(x) == {c \in Callers : cconn[c] = x}

\* IsShutdown: a non-blocking poll of the broadcast signal.
IsShutdown == shutdownCh = "closed"

\* netConn.Release: closes the underlying connection.
Release(x) == connState' = [connState EXCEPT ![x] = "closed"]

(***************************************************************************)
(* NewNetworkTransport: the state after construction.                      *)
(***************************************************************************)
InitShutdown ==
    /\ shutdown = FALSE
    /\ shutdownCh = "open"
    /\ shutdownLock = NoOne
    /\ listener = "open"
    /\ kpc = [k \in Closers |-> "idle"]
    /\ chCloses = 0
    /\ streamCloses = 0
    /\ closeCalls = 0
    /\ closeReturned = FALSE
    /\ panicked = FALSE

InitOut ==
    /\ connPool = [t \in Targets |-> <<>>]
    /\ connPoolLock = NoOne
    \* No pool ever holds more than MaxCalls connections: a maxPool of
    \* MaxCalls stands for every larger one.
    /\ maxPool \in 0..MaxCalls
    /\ connState = [x \in ConnIds |-> "unused"]
    /\ connTarget = [x \in ConnIds |-> 0]
    /\ cpc = [c \in Callers |-> "idle"]
    /\ ctarget = [c \in Callers |-> 0]
    /\ cconn = [c \in Callers |-> NoConn]
    /\ csawShutdown = [c \in Callers |-> FALSE]
    /\ cres = [c \in Callers |-> "none"]
    /\ cret = [c \in Callers |-> "none"]
    /\ cdisp = [c \in Callers |-> "none"]
    /\ cafterClose = [c \in Callers |-> FALSE]
    /\ failed = {}
    /\ returnOrder = [t \in Targets |-> <<>>]
    /\ calls = 0
    /\ dialed = 0

InitIn ==
    /\ lpc = "accept"
    /\ accepted = 0
    /\ acceptErrs = 0
    /\ hpc = [h \in Handlers |-> "none"]
    /\ inConn = [h \in Handlers |-> "none"]
    /\ hseq = [h \in Handlers |-> 0]
    /\ respCh = [h \in Handlers |-> <<>>]
    /\ hbuf = [h \in Handlers |-> <<>>]
    /\ written = [h \in Handlers |-> <<>>]
    /\ hexit = [h \in Handlers |-> "none"]
    /\ hexitAt = [h \in Handlers |-> "none"]
    /\ pending = [h \in Handlers |-> 0]
    /\ delivered = [h \in Handlers |-> 0]
    /\ replied = [h \in Handlers |-> 0]
    /\ lateDelivery = FALSE

\* No RollingList has been constructed.
InitNoList ==
    /\ size = 0
    /\ tot = 0
    /\ items = <<>>
    /\ added = <<>>
    /\ rollAt = <<>>
    /\ res = NoResult

Init == InitShutdown /\ InitOut /\ InitIn /\ InitNoList

(***************************************************************************)
(* Sync / genericRPC: the outbound call path.                              *)
(***************************************************************************)

\* A getPooledConn that hands out the last idle connection and leaves it in
\* the pool.
GetPooledConnKeep(c, t) ==
    LET conns == connPool[t]
        num == Len(conns)
    IN  /\ cconn' = [cconn EXCEPT ![c] = IF num = 0 THEN NoConn ELSE conns[num]]
        /\ UNCHANGED <<connPool, returnOrder>>

\* A getPooledConn that pops the first (oldest) idle connection.
GetPooledConnFifo(c, t) ==
    LET conns == connPool[t]
        num == Len(conns)
    IN  IF num = 0
        THEN /\ cconn' = [cconn EXCEPT ![c] = NoConn]
             /\ UNCHANGED <<connPool, returnOrder>>
        ELSE /\ cconn' = [cconn EXCEPT ![c] = conns[1]]
             /\ connPool' = [connPool EXCEPT ![t] = SubSeq(conns, 2, num)]
             /\ returnOrder' = [returnOrder EXCEPT ![t] =
                                    Without(returnOrder[t], conns[1])]

\* getPooledConn, under connPoolLock: pops the last idle connection of the
\* target (cconn, connPool), or reports none.
GetPooledConn(c, t) ==
    LET conns == connPool[t]
        num == Len(conns)
    IN  IF num = 0
        THEN /\ cconn' = [cconn EXCEPT ![c] = NoConn]
             /\ UNCHANGED <<connPool, returnOrder>>
        ELSE /\ cconn' = [cconn EXCEPT ![c] = conns[num]]
             /\ connPool' = [connPool EXCEPT ![t] = SubSeq(conns, 1, num - 1)]
             /\ returnOrder' = [returnOrder EXCEPT ![t] =
                                    Without(returnOrder[t], conns[num])]

\* Sync(target, args, resp) enters genericRPC, whose getConn first looks for
\* a pooled connection and dials only when there is none. Idle callers are
\* alike: the one with the lowest number makes the next call.
Sync(c) ==
    /\ cpc[c] = "idle"
    /\ \A d \in Callers : d < c => cpc[d] # "idle"
    /\ calls < MaxCalls
    /\ connPoolLock = NoOne
    /\ \E t \in Targets :
        /\ ctarget' = [ctarget EXCEPT ![c] = t]
        /\ GetPooledConn(c, t)
    /\ cpc' = [cpc EXCEPT ![c] = "roundTrip"]
    /\ cafterClose' = [cafterClose EXCEPT ![c] = closeReturned]
    /\ calls' = calls + 1
    /\ UNCHANGED <<rlVars, inVars, shutdownVars, connPoolLock, maxPool, connVars,
                   csawShutdown, cres, cret, cdisp, failed, dialed>>

\* What one round trip can run into, stage by stage: Dial fails ("dial");
\* sendRPC fails writing the type tag ("writeByte"), encoding the request
\* ("encode") or flushing ("flush"); decodeResponse fails decoding the error
\* string ("decodeError") or the response value ("decodeResp"); both decode
\* and the error string is non-empty ("appErr"); all is well ("ok").
SendFailures == {"writeByte", "encode", "flush"}
DecodeFailures == {"decodeError", "decodeResp"}
Outcomes == {"dial"} \cup SendFailures \cup DecodeFailures \cup {"appErr", "ok"}

\* sendRPC returns an error: each of its three failures calls conn.Release().
SendRPCReleases(out) == out \in SendFailures

\* A decodeResponse that forgets conn.Release() when the response value
\* fails to decode.
DecodeResponseKeepsOpen(out) == out = "decodeError"

\* decodeResponse fails to decode: it calls conn.Release() and reports
\* canReturn = false.
DecodeResponseReleases(out) == out \in DecodeFailures

\* A decodeResponse that reports canReturn only when the error string is
\* empty.
CanReturnOnlyOk(out) == out = "ok"

\* decodeResponse's first result, canReturn: both values decoded.
CanReturn(out) == out \in {"appErr", "ok"}

\* The error genericRPC returns to Sync's caller.
ReturnsErr(out) == out # "ok"

\* genericRPC between getPooledConn and returnConn: dial if the pool had no
\* connection, sendRPC, decodeResponse. All of it is I/O on a connection
\* that only this call holds. On a failure the call returns the error; when
\* decodeResponse reports canReturn the call goes on to returnConn.
RoundTrip(c) ==
    /\ cpc[c] = "roundTrip"
    /\ \E out \in Outcomes :
        /\ out = "dial" => cconn[c] = NoConn
        /\ cres' = [cres EXCEPT ![c] = out]
        /\ IF out = "dial"
           THEN \* stream.Dial failed: there is no connection
                /\ cdisp' = [cdisp EXCEPT ![c] = "noConn"]
                /\ UNCHANGED <<connVars, cconn, dialed, failed>>
           ELSE LET fresh == cconn[c] = NoConn
                    x == IF fresh THEN dialed + 1 ELSE cconn[c]
                    released == SendRPCReleases(out) \/ DecodeResponseReleases(out)
                IN  /\ dialed' = IF fresh THEN dialed + 1 ELSE dialed
                    /\ connTarget' = [connTarget EXCEPT ![x] = ctarget[c]]
                    /\ connState' = [connState EXCEPT ![x] =
                                        IF released THEN "closed" ELSE "open"]
                    /\ failed' = IF CanReturn(out) THEN failed
                                 ELSE failed \cup {x}
                    /\ cconn' = [cconn EXCEPT ![c] =
                                    IF CanReturn(out) THEN x ELSE NoConn]
                    /\ cdisp' = [cdisp EXCEPT ![c] =
                                    IF released THEN "closedOnError"
                                    ELSE IF CanReturn(out) THEN "none"
                                    ELSE "dropped"]
        /\ cret' = [cret EXCEPT ![c] =
                        IF CanReturn(out) THEN "none"
                        ELSE IF ReturnsErr(out) THEN "err" ELSE "nil"]
        /\ cpc' = [cpc EXCEPT ![c] =
                        IF CanReturn(out) THEN "returnConn" ELSE "returned"]
    /\ UNCHANGED <<rlVars, inVars, shutdownVars, poolVars, ctarget, csawShutdown, cafterClose, returnOrder, calls>>

\* returnConn, first half: take connPoolLock and evaluate n.IsShutdown().
\* Close does not take connPoolLock, so it can run between this read and
\* the append below.
ReturnConnCheck(c) ==
    /\ cpc[c] = "returnConn"
    /\ connPoolLock = NoOne
    /\ connPoolLock' = c
    /\ csawShutdown' = [csawShutdown EXCEPT ![c] = IsShutdown]
    /\ cpc' = [cpc EXCEPT ![c] = "returnConnLocked"]
    /\ UNCHANGED <<rlVars, inVars, shutdownVars, connPool, maxPool, connVars, ctarget, cconn,
                   callHist>>

\* A pool admission test that is off by one.
AdmitsUpTo(sawShutdown, conns) == ~sawShutdown /\ Len(conns) <= maxPool

\* The admission test of returnConn: the transport is not shut down and the
\* target's pool is below maxPool.
Admits(sawShutdown, conns) == ~sawShutdown /\ Len(conns) < maxPool

\* returnConn, second half: append to the target's pool when the transport
\* was not shut down and the pool is below maxPool, else Release; unlock;
\* genericRPC returns the decoded error, if any.
ReturnConn(c) ==
    /\ cpc[c] = "returnConnLocked"
    /\ connPoolLock = c
    /\ LET x == cconn[c]
           key == connTarget[x]
           conns == connPool[key]
       IN  IF Admits(csawShutdown[c], conns)
           THEN /\ connPool' = [connPool EXCEPT ![key] = Append(conns, x)]
                /\ returnOrder' = [returnOrder EXCEPT ![key] =
                                       Append(returnOrder[key], x)]
                /\ cdisp' = [cdisp EXCEPT ![c] = "pooled"]
                /\ UNCHANGED connState
           ELSE /\ Release(x)
                /\ cdisp' = [cdisp EXCEPT ![c] = "closedByReturnConn"]
                /\ UNCHANGED <<connPool, returnOrder>>
    /\ connPoolLock' = NoOne
    /\ cret' = [cret EXCEPT ![c] = IF ReturnsErr(cres[c]) THEN "err" ELSE "nil"]
    /\ cconn' = [cconn EXCEPT ![c] = NoConn]
    /\ cpc' = [cpc EXCEPT ![c] = "returned"]
    /\ UNCHANGED <<rlVars, inVars, shutdownVars, maxPool, connTarget, ctarget, csawShutdown,
                   cres, cafterClose, failed, calls, dialed>>

\* The caller has the result of Sync and goes on; the history of the call
\* is forgotten.
Returned(c) ==
    /\ cpc[c] = "returned"
    /\ cpc' = [cpc EXCEPT ![c] = "idle"]
    /\ ctarget' = [ctarget EXCEPT ![c] = 0]
    /\ csawShutdown' = [csawShutdown EXCEPT ![c] = FALSE]
    /\ cres' = [cres EXCEPT ![c] = "none"]
    /\ cret' = [cret EXCEPT ![c] = "none"]
    /\ cdisp' = [cdisp EXCEPT ![c] = "none"]
    /\ cafterClose' = [cafterClose EXCEPT ![c] = FALSE]
    /\ UNCHANGED <<rlVars, inVars, shutdownVars, poolVars, connVars, cconn, failed,
                   returnOrder, calls, dialed>>

(***************************************************************************)
(* Close.  Its steps change the shutdown state only.                       *)
(***************************************************************************)

\* A Close that does not test the shutdown flag.
CloseEnterNoTest(k) ==
    /\ kpc[k] = "idle"
    /\ k = closeCalls + 1
    /\ shutdownLock = NoOne
    /\ shutdownLock' = k
    /\ closeCalls' = closeCalls + 1
    /\ kpc' = [kpc EXCEPT ![k] = "closeCh"]
    /\ UNCHANGED <<outVars, inVars, rlVars>>
    /\ UNCHANGED <<shutdown, shutdownCh, listener, chCloses, streamCloses,
                   closeReturned, panicked>>

\* A Close that closes the listener first, before it closes the broadcast
\* signal.
CloseEnterClosesStream(k) ==
    /\ kpc[k] = "idle"
    /\ k = closeCalls + 1
    /\ shutdownLock = NoOne
    /\ shutdownLock' = k
    /\ closeCalls' = closeCalls + 1
    /\ kpc' = [kpc EXCEPT ![k] = IF ~shutdown THEN "closeCh" ELSE "unlock"]
    /\ listener' = IF ~shutdown THEN "closed" ELSE listener
    /\ UNCHANGED <<outVars, inVars, rlVars>>
    /\ UNCHANGED <<shutdown, shutdownCh, chCloses, streamCloses,
                   closeReturned, panicked>>

\* Close: take shutdownLock and test the shutdown flag.
CloseEnter(k) ==
    /\ kpc[k] = "idle"
    /\ k = closeCalls + 1
    /\ shutdownLock = NoOne
    /\ shutdownLock' = k
    /\ closeCalls' = closeCalls + 1
    /\ kpc' = [kpc EXCEPT ![k] = IF ~shutdown THEN "closeCh" ELSE "unlock"]
    /\ UNCHANGED <<outVars, inVars, rlVars>>
    /\ UNCHANGED <<shutdown, shutdownCh, listener, chCloses, streamCloses,
                   closeReturned, panicked>>

\* close(n.shutdownCh): closing a closed channel panics.
CloseSignal(k) ==
    /\ kpc[k] = "closeCh"
    /\ shutdownCh' = "closed"
    /\ chCloses' = chCloses + 1
    /\ panicked' = (panicked \/ shutdownCh = "closed")
    /\ kpc' = [kpc EXCEPT ![k] = "closeStream"]
    /\ UNCHANGED <<outVars, inVars, rlVars>>
    /\ UNCHANGED <<shutdown, shutdownLock, listener, streamCloses, closeCalls,
                   closeReturned>>

\* A Close that also releases the idle connections and empties the pool.
CloseStreamReleasesPool(k) ==
    /\ kpc[k] = "closeStream"
    /\ listener' = "closed"
    /\ streamCloses' = streamCloses + 1
    /\ kpc' = [kpc EXCEPT ![k] = "setShutdown"]
    /\ connState' = [x \in ConnIds |->
                        IF PoolCount(x) >= 1 THEN "closed" ELSE connState[x]]
    /\ connPool' = [t \in Targets |-> <<>>]
    /\ returnOrder' = [t \in Targets |-> <<>>]
    /\ UNCHANGED <<connPoolLock, maxPool, connTarget, callerVars, cres, cret,
                   cdisp, cafterClose, failed, calls, dialed, inVars, rlVars>>
    /\ UNCHANGED <<shutdown, shutdownCh, shutdownLock, chCloses, closeCalls,
                   closeReturned, panicked>>

\* n.stream.Close(): closes the listener.
CloseStream(k) ==
    /\ kpc[k] = "closeStream"
    /\ listener' = "closed"
    /\ streamCloses' = streamCloses + 1
    /\ kpc' = [kpc EXCEPT ![k] = "setShutdown"]
    /\ UNCHANGED <<outVars, inVars, rlVars>>
    /\ UNCHANGED <<shutdown, shutdownCh, shutdownLock, chCloses, closeCalls,
                   closeReturned, panicked>>

\* n.shutdown = true, then the deferred unlock and return nil.
CloseSetShutdown(k) ==
    /\ kpc[k] = "setShutdown"
    /\ shutdown' = TRUE
    /\ shutdownLock' = NoOne
    /\ closeReturned' = TRUE
    /\ kpc' = [kpc EXCEPT ![k] = "idle"]
    /\ UNCHANGED <<outVars, inVars, rlVars>>
    /\ UNCHANGED <<shutdownCh, listener, chCloses, streamCloses, closeCalls,
                   panicked>>

\* The transport was already shut down: the deferred unlock and return nil.
CloseNoop(k) ==
    /\ kpc[k] = "unlock"
    /\ shutdownLock' = NoOne
    /\ closeReturned' = TRUE
    /\ kpc' = [kpc EXCEPT ![k] = "idle"]
    /\ UNCHANGED <<outVars, inVars, rlVars>>
    /\ UNCHANGED <<shutdown, shutdownCh, listener, chCloses, streamCloses,
                   closeCalls, panicked>>

Close(k) ==
    \/ CloseEnter(k)
    \/ CloseSignal(k)
    \/ CloseStream(k)
    \/ CloseSetShutdown(k)
    \/ CloseNoop(k)

GenericRPC(c) ==
    \/ Sync(c)
    \/ RoundTrip(c)
    \/ ReturnConnCheck(c)
    \/ ReturnConn(c)
    \/ Returned(c)

Next ==
    \/ \E c \in Callers : GenericRPC(c)
    \/ \E k \in Closers : Close(k)

Spec == Init /\ [][Next]_vars


(***************************************************************************)
(* listen: the accept loop.                                                *)
(***************************************************************************)

\* stream.Accept returns a connection: listen starts a handler for it
\* (go n.handleConn(conn)) and loops.
AcceptConn ==
    /\ lpc = "accept"
    /\ listener = "open"
    /\ accepted < MaxInConns
    /\ accepted' = accepted + 1
    /\ hpc' = [hpc EXCEPT ![accepted + 1] = "read"]
    /\ inConn' = [inConn EXCEPT ![accepted + 1] = "open"]
    /\ UNCHANGED <<rlVars, shutdownVars, outVars, lpc, acceptErrs, hseq, respCh, hbuf,
                   written, hexit, hexitAt, consumerVars>>

\* stream.Accept returns an error: always on a closed listener, now and then
\* (a transient failure) on an open one.
AcceptFail ==
    /\ lpc = "accept"
    /\ listener = "closed" \/ acceptErrs < MaxAcceptErrs
    /\ lpc' = "acceptErr"
    /\ UNCHANGED <<rlVars, shutdownVars, outVars, accepted, acceptErrs, handlerVars,
                   consumerVars>>

\* A listen that returns on any Accept error.
ListenCheckReturnsOnError ==
    /\ lpc = "acceptErr"
    /\ lpc' = "done"
    /\ UNCHANGED <<rlVars, shutdownVars, outVars, accepted, acceptErrs,
                   handlerVars, consumerVars>>

\* listen after an Accept error: return if IsShutdown(), else log and
\* continue.
ListenCheck ==
    /\ lpc = "acceptErr"
    /\ IF IsShutdown
       THEN lpc' = "done" /\ UNCHANGED acceptErrs
       ELSE lpc' = "accept" /\ acceptErrs' = acceptErrs + 1
    /\ UNCHANGED <<rlVars, shutdownVars, outVars, accepted, handlerVars, consumerVars>>

Listen == AcceptConn \/ AcceptFail \/ ListenCheck

(***************************************************************************)
(* handleConn / handleCommand: one handler per inbound connection.         *)
(***************************************************************************)

\* The handler returns err from handleCommand (or fails to flush): the
\* deferred conn.Close() runs.
HandlerExit(h, err, at) ==
    /\ hpc' = [hpc EXCEPT ![h] = "exited"]
    /\ inConn' = [inConn EXCEPT ![h] = "closed"]
    /\ hexit' = [hexit EXCEPT ![h] = err]
    /\ hexitAt' = [hexitAt EXCEPT ![h] = at]

\* What the read of one command frame can return: a decoded SyncRequest
\* ("ok"), a clean end of stream, a read error, an unknown type tag, a
\* request that does not decode.
ReadOutcomes == {"ok", "EOF", "readErr", "unknownType", "decodeErr"}

\* handleCommand up to the dispatch: r.ReadByte() and dec.Decode(&req) block
\* until the peer sends or closes; nothing here looks at shutdownCh. A
\* decoded command gets an RPC envelope with a fresh reply channel.
ReadCommand(h) ==
    /\ hpc[h] = "read"
    /\ \E out \in ReadOutcomes :
        IF out = "ok"
        THEN /\ hseq[h] < MaxCmds
             /\ hseq' = [hseq EXCEPT ![h] = hseq[h] + 1]
             /\ respCh' = [respCh EXCEPT ![h] = <<>>]
             /\ hpc' = [hpc EXCEPT ![h] = "dispatch"]
             /\ UNCHANGED <<inConn, hexit, hexitAt>>
        ELSE /\ HandlerExit(h, out, "read")
             /\ UNCHANGED <<hseq, respCh>>
    /\ UNCHANGED <<rlVars, shutdownVars, outVars, listenVars, hbuf, written,
                   consumerVars>>

\* A handler that does not wait for the reply: once the envelope is
\* dispatched it reads the next command.
DeliverWithoutWaiting(h) ==
    /\ hpc[h] = "dispatch"
    /\ pending' = [pending EXCEPT ![h] = hseq[h]]
    /\ delivered' = [delivered EXCEPT ![h] = delivered[h] + 1]
    /\ lateDelivery' = (lateDelivery \/ IsShutdown)
    /\ hpc' = [hpc EXCEPT ![h] = "read"]
    /\ UNCHANGED <<rlVars, shutdownVars, outVars, listenVars, inConn, hseq,
                   respCh, hbuf, written, hexit, hexitAt, replied>>

\* The dispatch select, case n.consumeCh <- rpc: the consumer receives the
\* envelope (a rendezvous: consumeCh is unbuffered).
Deliver(h) ==
    /\ hpc[h] = "dispatch"
    /\ pending' = [pending EXCEPT ![h] = hseq[h]]
    /\ delivered' = [delivered EXCEPT ![h] = delivered[h] + 1]
    /\ lateDelivery' = (lateDelivery \/ IsShutdown)
    /\ hpc' = [hpc EXCEPT ![h] = "wait"]
    /\ UNCHANGED <<rlVars, shutdownVars, outVars, listenVars, inConn, hseq, respCh,
                   hbuf, written, hexit, hexitAt, replied>>

\* A dispatch that gives up with the shutdown error although shutdown was
\* not signaled.
AbortDispatchUnsignaled(h) ==
    /\ hpc[h] = "dispatch"
    /\ HandlerExit(h, "shutdown", "dispatch")
    /\ UNCHANGED <<rlVars, shutdownVars, outVars, listenVars, hseq, respCh, hbuf,
                   written, consumerVars>>

\* The dispatch select, case <-n.shutdownCh: ErrTransportShutdown.
AbortDispatch(h) ==
    /\ hpc[h] = "dispatch"
    /\ IsShutdown
    /\ HandlerExit(h, "shutdown", "dispatch")
    /\ UNCHANGED <<rlVars, shutdownVars, outVars, listenVars, hseq, respCh, hbuf,
                   written, consumerVars>>

\* What encoding the reply can run into.
EncodeOutcomes == {"ok", "encodeErr"}

\* A reply wait on a channel shared by the handlers: the handler takes
\* whichever reply is there.
RecvReplyShared(h) ==
    /\ hpc[h] = "wait"
    /\ \E g \in Handlers :
        /\ respCh[g] # <<>>
        /\ respCh' = [respCh EXCEPT ![g] = Tail(respCh[g])]
        /\ hbuf' = [hbuf EXCEPT ![h] = <<Head(respCh[g])>>]
    /\ hpc' = [hpc EXCEPT ![h] = "flush"]
    /\ UNCHANGED <<rlVars, shutdownVars, outVars, listenVars, inConn, hseq,
                   written, hexit, hexitAt, consumerVars>>

\* The reply select, case resp := <-respCh: the handler encodes the error
\* string and then the response into its writer.
RecvReply(h) ==
    /\ hpc[h] = "wait"
    /\ respCh[h] # <<>>
    /\ respCh' = [respCh EXCEPT ![h] = Tail(respCh[h])]
    /\ \E out \in EncodeOutcomes :
        IF out = "ok"
        THEN /\ hbuf' = [hbuf EXCEPT ![h] = <<Head(respCh[h])>>]
             /\ hpc' = [hpc EXCEPT ![h] = "flush"]
             /\ UNCHANGED <<inConn, hexit, hexitAt>>
        ELSE /\ HandlerExit(h, out, "wait")
             /\ UNCHANGED hbuf
    /\ UNCHANGED <<rlVars, shutdownVars, outVars, listenVars, hseq, written,
                   consumerVars>>

\* A reply wait without the shutdown case: the handler waits for the reply
\* alone.
AbortWaitMissing(h) ==
    /\ hpc[h] = "wait"
    /\ FALSE
    /\ UNCHANGED vars

\* The reply select, case <-n.shutdownCh: ErrTransportShutdown.
AbortWait(h) ==
    /\ hpc[h] = "wait"
    /\ IsShutdown
    /\ HandlerExit(h, "shutdown", "wait")
    /\ UNCHANGED <<rlVars, shutdownVars, outVars, listenVars, hseq, respCh, hbuf,
                   written, consumerVars>>

\* handleConn after handleCommand returned nil: w.Flush(), then the next
\* command; a flush error ends the handler.
Flush(h) ==
    /\ hpc[h] = "flush"
    /\ hbuf' = [hbuf EXCEPT ![h] = <<>>]
    /\ \E ok \in BOOLEAN :
        IF ok
        THEN /\ written' = [written EXCEPT ![h] = written[h] \o hbuf[h]]
             /\ hpc' = [hpc EXCEPT ![h] = "read"]
             /\ UNCHANGED <<inConn, hexit, hexitAt>>
        ELSE /\ HandlerExit(h, "flushErr", "flush")
             /\ UNCHANGED written
    /\ UNCHANGED <<rlVars, shutdownVars, outVars, listenVars, hseq, respCh,
                   consumerVars>>

\* The consumer answers an envelope it dequeued: one send on the envelope's
\* reply channel, which holds one reply.
ConsumerReply(h) ==
    /\ pending[h] # 0
    /\ Len(respCh[h]) < RespChCap
    /\ respCh' = [respCh EXCEPT ![h] = Append(respCh[h], <<h, pending[h]>>)]
    /\ pending' = [pending EXCEPT ![h] = 0]
    /\ replied' = [replied EXCEPT ![h] = replied[h] + 1]
    /\ UNCHANGED <<rlVars, shutdownVars, outVars, listenVars, hpc, inConn, hseq, hbuf,
                   written, hexit, hexitAt, delivered, lateDelivery>>

HandleConn(h) ==
    \/ ReadCommand(h)
    \/ Deliver(h)
    \/ AbortDispatch(h)
    \/ RecvReply(h)
    \/ AbortWait(h)
    \/ Flush(h)

NextIn ==
    \/ Listen
    \/ \E h \in Handlers : HandleConn(h)
    \/ \E h \in Handlers : ConsumerReply(h)
    \/ \E k \in Closers : Close(k)

\* The outbound path plays no part in SpecIn: its pool capacity is fixed.
InitInbound == Init /\ maxPool = 0

SpecIn == InitInbound /\ [][NextIn]_vars

\* The goroutines of the transport are scheduled fairly: a handler that can
\* take a branch of a select, encode or flush does so, the accept loop acts
\* on an error it got, Accept on a closed listener returns, a Close that
\* started finishes. Nothing is assumed of the peers (ReadCommand), of the
\* consumer (Deliver, ConsumerReply) or of new connections.
FairnessIn ==
    /\ \A h \in Handlers :
        /\ WF_vars(AbortDispatch(h))
        /\ WF_vars(AbortWait(h))
        /\ WF_vars(RecvReply(h))
        /\ WF_vars(Flush(h))
    /\ WF_vars(ListenCheck)
    /\ WF_vars(AcceptFail /\ listener = "closed")
    /\ \A k \in Closers :
        WF_vars(CloseSignal(k) \/ CloseStream(k) \/ CloseSetShutdown(k) \/ CloseNoop(k))

FairSpecIn == SpecIn /\ FairnessIn

(***************************************************************************)
(* RollingList (common/rolling_list.go): the last items of a stream.       *)
(***************************************************************************)
Sizes == 1..MaxSize
\* The indexes GetItem is called with: below the first, and past the last,
\* index any list of the model has.
Indexes == (0 - 1)..(MaxAdds + 1)
\* The list never looks at its items. An added item is fresh (its own
\* global index, so that fresh items all differ) or repeats the first one.
Item(fresh) == IF fresh THEN tot ELSE 0

\* NewRollingList(size): an empty buffer.
NewRollingList(s) ==
    /\ size = s
    /\ tot = 0
    /\ items = <<>>
    /\ added = <<>>
    /\ rollAt = <<>>
    /\ res = NoResult

InitList ==
    /\ InitShutdown /\ InitOut /\ InitIn /\ maxPool = 0
    /\ \E s \in Sizes : NewRollingList(s)

\* Get: the buffer and the total.
Get == <<items, tot>>

\* A Roll that keeps the oldest size items.
RollKeepsOldest(s) == SubSeq(s, 1, size)

\* Roll: the new buffer is r.items[r.size:].
Roll(s) == SubSeq(s, size + 1, Len(s))

\* An Add that compacts once the buffer holds more than 2*size items.
AddLate(item) ==
    /\ tot < MaxAdds
    /\ LET rolled == Len(items) > 2 * size
           kept == IF rolled THEN Roll(items) ELSE items
       IN  /\ items' = Append(kept, item)
           /\ rollAt' = IF rolled THEN Append(rollAt, tot + 1) ELSE rollAt
    /\ tot' = tot + 1
    /\ added' = Append(added, item)
    /\ res' = NoResult
    /\ UNCHANGED <<shutdownVars, outVars, inVars, size>>

\* An Add that compacts as soon as the buffer holds size items.
AddEager(item) ==
    /\ tot < MaxAdds
    /\ LET rolled == Len(items) >= size
           kept == IF rolled THEN Roll(items) ELSE items
       IN  /\ items' = Append(kept, item)
           /\ rollAt' = IF rolled THEN Append(rollAt, tot + 1) ELSE rollAt
    /\ tot' = tot + 1
    /\ added' = Append(added, item)
    /\ res' = NoResult
    /\ UNCHANGED <<shutdownVars, outVars, inVars, size>>

\* Add: Roll if the buffer holds 2*size items or more, then append the item
\* and count it.
Add(item) ==
    /\ tot < MaxAdds
    /\ LET rolled == Len(items) >= 2 * size
           kept == IF rolled THEN Roll(items) ELSE items
       IN  /\ items' = Append(kept, item)
           /\ rollAt' = IF rolled THEN Append(rollAt, tot + 1) ELSE rollAt
    /\ tot' = tot + 1
    /\ added' = Append(added, item)
    /\ res' = NoResult
    /\ UNCHANGED <<shutdownVars, outVars, inVars, size>>

\* A GetItem that takes the buffer to hold the last size items.
GetItemAssumesSize(index) ==
    /\ LET n == Len(items)
           oldestCached == tot - size
           findex == index - oldestCached
       IN  res' = IF index < oldestCached
                  THEN [index |-> index, item |-> NoItem, err |-> "too late"]
                  ELSE IF findex >= n
                  THEN [index |-> index, item |-> NoItem, err |-> "not found"]
                  ELSE [index |-> index, item |-> items[findex + 1],
                        err |-> "nil"]
    /\ UNCHANGED <<shutdownVars, outVars, inVars, size, tot, items, added,
                   rollAt>>

\* GetItem(index): ErrTooLate below the oldest cached index, ErrKeyNotFound
\* past the buffer, else r.items[findex] (items[findex + 1] here: sequences
\* start at 1).
GetItem(index) ==
    /\ LET n == Len(items)
           oldestCached == tot - n
           findex == index - oldestCached
       IN  res' = IF index < oldestCached
                  THEN [index |-> index, item |-> NoItem, err |-> "too late"]
                  ELSE IF findex >= n
                  THEN [index |-> index, item |-> NoItem, err |-> "not found"]
                  ELSE [index |-> index, item |-> items[findex + 1],
                        err |-> "nil"]
    /\ UNCHANGED <<shutdownVars, outVars, inVars, size, tot, items, added,
                   rollAt>>

NextList ==
    \/ \E fresh \in BOOLEAN : Add(Item(fresh))
    \/ \E index \in Indexes : GetItem(index)

SpecList == InitList /\ [][NextList]_vars

(***************************************************************************)
(* Properties of the outbound path and of Close, checked under Spec.       *)
(***************************************************************************)
Last(s) == s[Len(s)]

\* C1: every outbound connection is in exactly one of three states: idle in
\* the pool (once, in the pool of its own target), held by exactly one
\* call, or closed; it is never held by two calls, never twice in the pool,
\* never in the pool once closed.
ExclusiveOwnership ==
    \A x \in ConnIds :
        LET idle == PoolCount(x) >= 1
            held == Holders(x) # {}
            closed == connState[x] = "closed"
        IN  /\ PoolCount(x) <= 1
            /\ Cardinality(Holders(x)) <= 1
            /\ idle => InSeq(x, connPool[connTarget[x]])
            /\ IF connState[x] = "unused"
               THEN ~idle /\ ~held
               ELSE /\ idle \/ held \/ closed
                    /\ ~(idle /\ held) /\ ~(idle /\ closed) /\ ~(held /\ closed)

\* The three states at once: one connection is idle in the pool, one is
\* held by a call inside returnConn, one is closed.
ExclusiveOwnershipWitness ==
    \E x, y, z \in ConnIds :
        /\ PoolCount(x) = 1 /\ connState[x] = "open"
        /\ \E c \in Callers : cpc[c] = "returnConnLocked" /\ cconn[c] = y
        /\ connState[z] = "closed"

\* C2: a connection over which a round trip failed (at the write of the
\* tag, the encode, the flush, the decode of the error string or of the
\* response value) is closed and is in no pool, in this and every later
\* state; a call whose dial failed has no connection at all.
FailedConnNeverPooled ==
    /\ \A x \in failed :
        connState[x] = "closed" /\ PoolCount(x) = 0 /\ Holders(x) = {}
    /\ \A c \in Callers :
        cpc[c] = "returned" /\ cres[c] \in SendFailures \cup DecodeFailures
            => cret[c] = "err" /\ cdisp[c] = "closedOnError"
    /\ \A c \in Callers :
        cpc[c] = "returned" /\ cres[c] = "dial"
            => cret[c] = "err" /\ cdisp[c] = "noConn" /\ cconn[c] = NoConn

\* A call has just failed decoding the response value over a connection,
\* while another connection of the same target sits in the pool.
FailedConnNeverPooledWitness ==
    \E c \in Callers :
        /\ cpc[c] = "returned" /\ cres[c] = "decodeResp"
        /\ failed # {}
        /\ connPool[ctarget[c]] # <<>>

\* C3: for every target the pool holds at most maxPool idle connections.
PoolBounded == \A t \in Targets : Len(connPool[t]) <= maxPool

\* A pool is full and a call that found it full, with the transport not
\* shut down, had its connection closed by returnConn.
PoolBoundedWitness ==
    \E c \in Callers :
        /\ maxPool >= 1
        /\ cpc[c] = "returned" /\ cdisp[c] = "closedByReturnConn"
        /\ ~csawShutdown[c]
        /\ Len(connPool[ctarget[c]]) = maxPool

\* C4: once Close has signaled shutdown, no connection is added to a pool.
NoAdmissionAfterShutdown ==
    [][IsShutdown => \A t \in Targets : Len(connPool'[t]) <= Len(connPool[t])]_vars

\* C5: when the error string and the response value both decode and the
\* error string is non-empty, the call returns an error and its connection
\* goes through returnConn: it is held open until returnConn pools it or
\* closes it, and no decode path closes it.
AppErrorKeepsConn ==
    \A c \in Callers :
        cres[c] = "appErr" =>
            \/ /\ cpc[c] \in {"returnConn", "returnConnLocked"}
               /\ cconn[c] # NoConn
               /\ connState[cconn[c]] = "open"
            \/ /\ cpc[c] = "returned"
               /\ cret[c] = "err"
               /\ cdisp[c] \in {"pooled", "closedByReturnConn"}

\* A call returned the application error and its connection was pooled.
AppErrorKeepsConnWitness ==
    \E c \in Callers :
        /\ cpc[c] = "returned" /\ cres[c] = "appErr"
        /\ cret[c] = "err" /\ cdisp[c] = "pooled"
        /\ connPool[ctarget[c]] # <<>>

\* C6: an acquisition hands out the idle connection most recently returned
\* to the target's pool, getConn takes the dial path only when the target
\* has no idle connection, and no more connections are dialed than calls
\* are made.
LifoReuse ==
    [][/\ \A c \in Callers :
            cpc[c] = "idle" /\ cpc'[c] = "roundTrip" =>
                IF returnOrder[ctarget'[c]] = <<>>
                THEN cconn'[c] = NoConn
                ELSE cconn'[c] = Last(returnOrder[ctarget'[c]])
       /\ dialed' > dialed =>
            \E c \in Callers : cpc[c] = "roundTrip" /\ cconn[c] = NoConn
       /\ dialed' <= calls']_vars

\* The third call reuses a pooled connection while an older one stays idle:
\* two connections were dialed for three calls.
LifoReuseWitness ==
    \E c \in Callers :
        /\ cpc[c] = "roundTrip" /\ cconn[c] # NoConn
        /\ connPool[ctarget[c]] # <<>>
        /\ calls = 3 /\ dialed = 2

\* C7: whatever the number and the interleaving of Close calls, the
\* broadcast signal and the listener are closed at most once, nothing
\* panics, and once a Close has returned the state is that of a single
\* Close: flag set, signal closed once, listener closed once.
CloseIdempotent ==
    /\ chCloses <= 1
    /\ streamCloses <= 1
    /\ ~panicked
    /\ closeReturned =>
        /\ shutdown /\ IsShutdown /\ listener = "closed"
        /\ chCloses = 1 /\ streamCloses = 1

\* Two Close calls have run to completion.
CloseIdempotentWitness ==
    /\ closeCalls = 2
    /\ closeReturned
    /\ shutdownLock = NoOne
    /\ \A k \in Closers : kpc[k] = "idle"

\* C10: a Sync invoked after Close has returned fails: it returns an error
\* and completes no round trip.
SyncAfterCloseFails ==
    \A c \in Callers :
        cafterClose[c] /\ cpc[c] = "returned" =>
            cret[c] = "err" /\ cres[c] # "ok"


\* C18: Close does not touch the connection pool. No step of Close changes
\* the pool or the state of a connection; and in every step of the
\* transport a connection that is idle in the pool and open stays open,
\* and leaves the pool only by being checked out by an outbound call.
CloseLeavesPoolAlone ==
    [][/\ kpc' # kpc =>
            /\ connPool' = connPool
            /\ connState' = connState
       /\ \A x \in ConnIds :
            (PoolCount(x) >= 1 /\ connState[x] = "open") =>
                /\ connState'[x] = "open"
                /\ PoolCount(x)' = 0 =>
                        \E c \in Callers : cconn[c] = NoConn /\ cconn'[c] = x
      ]_vars

\* Close has run to its end, no call is in progress, and a connection is
\* idle in the pool and open.
CloseLeavesPoolAloneWitness ==
    /\ closeReturned /\ shutdown
    /\ \A k \in Closers : kpc[k] = "idle"
    /\ \A c \in Callers : cpc[c] = "idle"
    /\ \E t \in Targets :
        /\ connPool[t] # <<>>
        /\ connState[Last(connPool[t])] = "open"

(***************************************************************************)
(* Properties of the inbound path, checked under SpecIn and FairSpecIn.    *)
(***************************************************************************)

NoDeliveryAfterShutdown ==
    [][IsShutdown => delivered' = delivered]_vars

\* C9, amended: the dispatch ends either with the consumer receiving the
\* envelope or, only if shutdown has been signaled, with the shutdown
\* error; either may happen when both are ready. A handler that took the
\* shutdown branch exits with ErrTransportShutdown, closes its connection,
\* and its envelope is never handed to the consumer; a handler waiting for
\* a reply has had its envelope received.
DispatchDeliversOrAborts ==
    \A h \in Handlers :
        /\ delivered[h] <= hseq[h]
        /\ hexit[h] = "shutdown" => IsShutdown /\ hexitAt[h] \in {"dispatch", "wait"}
        /\ hexitAt[h] = "dispatch" =>
            /\ hexit[h] = "shutdown"
            /\ hpc[h] = "exited" /\ inConn[h] = "closed"
            /\ delivered[h] = hseq[h] - 1
            /\ pending[h] = 0
        /\ hpc[h] \in {"wait", "flush"} => delivered[h] = hseq[h]
        /\ hpc[h] = "dispatch" => delivered[h] = hseq[h] - 1

\* After shutdown was signaled one handler aborted its dispatch and another
\* handed its envelope to the consumer.
DispatchDeliversOrAbortsWitness ==
    \E h, g \in Handlers :
        /\ hexitAt[h] = "dispatch" /\ hexit[h] = "shutdown"
        /\ lateDelivery /\ delivered[g] >= 1
        /\ g # h

\* The handlers that have been started.
Started == {h \in Handlers : hpc[h] # "none"}

\* C11: the accept loop stops only on explicit shutdown. When the loop
\* handles an Accept error and shutdown has not been signaled it does not
\* return: it is back inside Accept, where it accepts later connections.
\* Every accepted connection starts exactly one handler, and the loop has
\* returned only in states where shutdown has been signaled.
AcceptLoopStopsOnlyOnShutdown ==
    [][/\ (lpc = "acceptErr" /\ ~IsShutdown /\ lpc' # lpc) =>
            /\ lpc' = "accept"
            /\ acceptErrs' = acceptErrs + 1
       /\ (lpc # "done" /\ lpc' = "done") => IsShutdown
       /\ lpc' = "done" => shutdownCh' = "closed"
       /\ accepted' # accepted =>
            /\ accepted' = accepted + 1
            /\ lpc' = "accept"
            /\ hpc[accepted'] = "none" /\ hpc'[accepted'] = "read"
            /\ inConn'[accepted'] = "open"
       /\ Cardinality(Started') = accepted'
      ]_vars

\* The loop survived an Accept error, is back inside Accept with shutdown
\* not signaled, and connections have been accepted and handed to handlers.
AcceptLoopStopsOnlyOnShutdownWitness ==
    /\ acceptErrs >= 1
    /\ lpc = "accept"
    /\ ~IsShutdown
    /\ accepted = MaxInConns
    /\ \A h \in Handlers : hpc[h] # "none"

\* C12: within one inbound connection commands are processed one at a
\* time. The handler is at the frame read only when every command it has
\* decoded so far has had its response written and flushed; while a command
\* is in progress exactly that one lacks its response, so at most one
\* envelope of the connection is dispatched and unanswered, whatever the
\* other connections do.
SequentialCommands ==
    \A h \in Handlers :
        /\ hpc[h] = "read" => Len(written[h]) = hseq[h] /\ hbuf[h] = <<>>
        /\ hpc[h] \in {"dispatch", "wait", "flush"} =>
                Len(written[h]) = hseq[h] - 1
        /\ delivered[h] - Len(written[h]) <= 1
        /\ hseq[h] - Len(written[h]) <= 1

\* Two connections have a command in progress at the same time, one of
\* them its second command, after the first was answered and flushed.
SequentialCommandsWitness ==
    \E h, g \in Handlers :
        /\ h # g
        /\ hpc[h] = "wait" /\ hseq[h] = 2 /\ Len(written[h]) = 1
        /\ hpc[g] = "wait" /\ pending[g] # 0

\* C17: after Close the accept loop eventually terminates, given that
\* Accept on a closed listener returns an error. Close closes the broadcast
\* signal before it closes the listener: whenever the listener is closed
\* shutdown is already signaled, so the loop, which sees the Accept error
\* of the closed listener, finds IsShutdown() true and returns.
AcceptLoopEndsAfterClose ==
    /\ [](listener = "closed" => IsShutdown)
    /\ (closeReturned \/ listener = "closed") ~> (lpc = "done")

\* Close has returned and the accept loop has terminated, with connections
\* accepted before.
AcceptLoopEndsAfterCloseWitness ==
    /\ closeReturned
    /\ listener = "closed"
    /\ lpc = "done"
    /\ accepted >= 1

\* C19: the consumer's single reply to an envelope it dequeued never
\* blocks: in every reachable state the send on the reply channel of an
\* envelope the consumer holds can complete, also when the handler has
\* aborted on shutdown and nobody will receive the reply; the consumer
\* sends at most one reply per envelope, and no reply channel ever holds
\* more than its capacity.
ReplyNeverBlocks ==
    \A h \in Handlers :
        /\ pending[h] # 0 => ENABLED ConsumerReply(h)
        /\ pending[h] # 0 => Len(respCh[h]) < RespChCap
        /\ Len(respCh[h]) <= RespChCap
        /\ replied[h] <= delivered[h]

\* The handler aborted its reply wait on shutdown; afterwards the consumer
\* sent its reply, which stays in the channel.
ReplyNeverBlocksWitness ==
    \E h \in Handlers :
        /\ hpc[h] = "exited" /\ hexit[h] = "shutdown" /\ hexitAt[h] = "wait"
        /\ pending[h] = 0
        /\ replied[h] = delivered[h]
        /\ respCh[h] = <<<<h, hseq[h]>>>>

\* C20: replies never cross connections. A reply is a pair <<handler,
\* command>> naming the envelope the consumer answered. Whatever a handler
\* has received, encoded or written answers an envelope of its own: the
\* i-th response written on a connection answers the i-th command read on
\* that connection, the response being encoded or waiting in the channel
\* answers the command read last, and a handler writes at most one
\* response per command read.
RepliesStayOnConnection ==
    \A h \in Handlers :
        /\ \A i \in 1..Len(written[h]) : written[h][i] = <<h, i>>
        /\ Len(written[h]) <= hseq[h]
        /\ \A i \in 1..Len(hbuf[h]) : hbuf[h][i] = <<h, hseq[h]>>
        /\ \A i \in 1..Len(respCh[h]) : respCh[h][i] = <<h, hseq[h]>>
        /\ Len(written[h]) + Len(hbuf[h]) + Len(respCh[h]) <= hseq[h]
        /\ pending[h] # 0 => pending[h] = hseq[h]

\* Two connections have each had a response written while the other had a
\* command in progress: one wrote two responses, the other one.
RepliesStayOnConnectionWitness ==
    \E h, g \in Handlers :
        /\ h # g
        /\ Len(written[h]) = 2
        /\ Len(written[g]) = 1
        /\ hpc[g] = "wait" /\ respCh[g] # <<>>

(***************************************************************************)
(* Properties of the RollingList, checked under SpecList.                  *)
(***************************************************************************)

\* C13: GetItem(i), with oldestCached = tot - len(buffer), fails with "too
\* late" if i < oldestCached, fails with "not found" if i >= tot, and
\* otherwise returns the i-th item ever added (0-based). With window size 3
\* and the items 0..6 added, GetItem(0) is "too late", GetItem(6) is the
\* 7th item and GetItem(7) is "not found".
GetItemContract ==
    res.err # "none" =>
        LET i == res.index
            oldestCached == tot - Len(items)
        IN  /\ i < oldestCached => res.err = "too late" /\ res.item = NoItem
            /\ i >= tot => res.err = "not found" /\ res.item = NoItem
            /\ (oldestCached <= i /\ i < tot) =>
                    res.err = "nil" /\ res.item = added[i + 1]
            /\ (size = 3 /\ added = <<0, 1, 2, 3, 4, 5, 6>>) =>
                    /\ i = 0 => res.err = "too late"
                    /\ i = 6 => res.err = "nil" /\ res.item = 6
                    /\ i = 7 => res.err = "not found"

\* Window size 3, the items 0..6 added, and GetItem(0) was "too late".
GetItemContractWitness ==
    /\ size = 3
    /\ added = <<0, 1, 2, 3, 4, 5, 6>>
    /\ items = <<3, 4, 5, 6>>
    /\ res = [index |-> 0, item |-> NoItem, err |-> "too late"]

\* C14: after n Add calls tot = n, and the buffer Get returns holds, in
\* order, the most recent len(buffer) items added: its k-th item (from 1)
\* is the item of global index tot - len(buffer) + k - 1.
WindowInvariant ==
    LET buffer == Get[1]
        total == Get[2]
    IN  /\ total = Len(added)
        /\ Len(buffer) <= total
        /\ \A k \in 1..Len(buffer) :
                buffer[k] = added[total - Len(buffer) + k]

\* The list has compacted twice and its buffer is full again.
WindowInvariantWitness ==
    /\ Len(rollAt) >= 2
    /\ Len(items) = 2 * size
    /\ size >= 2
    /\ \E k \in 1..Len(items) : items[k] = 0 /\ tot - Len(items) + k > 1

\* C15, as claimed: once the first compaction has happened, the buffer
\* holds at least S and fewer than 2S items after every Add.
LengthBelowTwiceSize ==
    rollAt # <<>> => size <= Len(items) /\ Len(items) < 2 * size

\* C15, amended: once the first compaction has happened, the buffer holds
\* at least S and at most 2S items after every Add.
LengthUpToTwiceSize ==
    rollAt # <<>> => size <= Len(items) /\ Len(items) <= 2 * size

\* After a compaction the buffer has grown back to 2S items.
LengthUpToTwiceSizeWitness ==
    /\ rollAt # <<>>
    /\ Len(items) = 2 * size
    /\ size >= 2

=============================================================================
